---- MODULE Spec2Model ----
(***************************************************************************)
(* Model of the database-backed core of the energy trading API             *)
(* (src/src/database.rs, DatabaseService): the prosumer ledger and its     *)
(* token transfer, the order store, the matching pass and the settlement   *)
(* of a trade; and of the in-memory handlers of src/src/handlers.rs for    *)
(* prosumers and orders.                                                   *)
(*                                                                         *)
(* Numbers are integers: the f64 columns of the source are modelled by     *)
(* exact arithmetic, which is what the source computes on small whole      *)
(* values.  Every DatabaseService method other than transfer_tokens runs   *)
(* its single SQL statement on the pool in autocommit mode, so each such   *)
(* statement is one atomic step; transfer_tokens runs its statements       *)
(* inside one transaction of the default PostgreSQL isolation level        *)
(* (READ COMMITTED): a SELECT reads the last committed row without         *)
(* locking it, an UPDATE locks the row until the transaction ends and is   *)
(* evaluated on the latest committed row.  (With the SQLite pool the same  *)
(* statements run under a single-writer lock, where the later of two       *)
(* overlapping writers gets an error instead of waiting.)                  *)
(***************************************************************************)
EXTENDS Integers, Sequences, FiniteSets, TLC

VARIABLES
    prosumers,   \* table prosumers: address -> row (present = the row exists)
    orders,      \* table orders, in creation order; the index is the id
    trades,      \* table trades, in insertion order
    proposed,    \* candidate trades returned by match_orders, not yet settled
    settle,      \* per caller: position inside execute_trade
    tx,          \* per client: position inside transfer_tokens
    ntransfers,  \* number of transfer_tokens calls started so far
    state,       \* the LedgerState behind the mutex of the in-memory handlers
    reply,       \* the request and response of the last in-memory handler call
    uuids,       \* number of order ids generated by the in-memory handlers
    now,         \* the clock
    returned,    \* the last read-only query and the value it returned
    auth_store,  \* the AuthStore: users and api_keys
    served       \* the last request through auth_middleware and its outcome

vars == <<prosumers, orders, trades, proposed, settle, tx, ntransfers,
          state, reply, uuids, now,
                 returned,
          auth_store, served>>

-----------------------------------------------------------------------------
(* Bounds *)

MaxOrders    == 2
MaxTrades    == 2
MaxInflight  == 2
MaxTransfers == 2

(* Input sets *)

Addresses     == {"alice", "bob"}
Clients       == {"c1", "c2"}
Settlers      == {"s1"}
TokenTypes    == {"grid_tokens", "watt_tokens"}
TokenInputs   == TokenTypes \cup {"other"}
BalanceInputs == {0, 2}
AmountInputs  == {-1, 0, 1, 2}
PositiveAmounts == {1, 2}
EnergyInputs  == {1, 2}
PriceInputs   == {1, 2}
OrderTypes    == {"buy", "sell"}
TradeStatusInputs == {"pending", "completed", "failed"}
OrderStatusInputs == {"active", "completed", "cancelled"}

NoneVal == "none"

Min(a, b) == IF a <= b THEN a ELSE b

-----------------------------------------------------------------------------
(* Balance ledger *)

NoRow == [present |-> FALSE, grid_tokens |-> 0, watt_tokens |-> 0,
          energy_generated |-> 0, energy_consumed |-> 0]

Balance(row, token_type) ==
    IF token_type = "grid_tokens" THEN row.grid_tokens ELSE row.watt_tokens

AddBalance(row, token_type, delta) ==
    IF token_type = "grid_tokens"
    THEN [row EXCEPT !.grid_tokens = @ + delta]
    ELSE [row EXCEPT !.watt_tokens = @ + delta]

IdleTx == [pc |-> "idle", from |-> NoneVal, to |-> NoneVal, amount |-> 0,
           token_type |-> NoneVal, result |-> NoneVal]

(* INSERT INTO prosumers ... : the row is stored as given by the caller;   *)
(* address is the key of the table, a second row for it is not inserted.   *)
CreateProsumerRow(address, grid, watt, generated, consumed) ==
    /\ ~prosumers[address].present
    /\ prosumers' = [prosumers EXCEPT
                       ![address] = [present |-> TRUE, grid_tokens |-> grid,
                                     watt_tokens |-> watt,
                                     energy_generated |-> generated,
                                     energy_consumed |-> consumed]]
    /\ UNCHANGED <<orders, trades, proposed, settle, tx, ntransfers,
                 state, reply, uuids, now,
                 returned,
                 auth_store, served>>

(* A registration: both energy counters start at zero. *)
CreateProsumer(address, grid, watt) ==
    CreateProsumerRow(address, grid, watt, 0, 0)

(* Rows on which transaction c holds an uncommitted UPDATE (a row lock).   *)
(* An UPDATE whose WHERE clause matches no row locks nothing.              *)
LockedBy(c) ==
    {a \in Addresses :
        /\ prosumers[a].present
        /\ \/ tx[c].pc \in {"debited", "credited"} /\ a = tx[c].from
           \/ tx[c].pc = "credited" /\ a = tx[c].to}

LockedByOther(c, a) == \E d \in Clients \ {c} : a \in LockedBy(d)

(* A call of transfer_tokens: pool.begin() opens the transaction. *)
TransferBegin(c, from, to, amount, token_type) ==
    /\ tx[c].pc = "idle"
    /\ ntransfers < MaxTransfers
    /\ ntransfers' = ntransfers + 1
    /\ tx' = [tx EXCEPT ![c] = [pc |-> "begun", from |-> from, to |-> to,
                                amount |-> amount, token_type |-> token_type,
                                result |-> NoneVal]]
    /\ UNCHANGED <<prosumers, orders, trades, proposed, settle,
                 state, reply, uuids, now,
                 returned,
                 auth_store, served>>

(* The checks on the sender row without the comparison of the balance. *)
SenderCheckNoBalance(row, amount, token_type) ==
    IF ~row.present THEN "NotFound"
    ELSE IF token_type \notin TokenTypes THEN "InvalidTokenType"
    ELSE NoneVal

(* What the checks on the sender row that the SELECT returned decide:      *)
(* NoneVal when the transfer goes on to its updates.                       *)
SenderCheck(row, amount, token_type) ==
    IF ~row.present THEN "NotFound"
    ELSE IF token_type \notin TokenTypes THEN "InvalidTokenType"
    ELSE IF Balance(row, token_type) < amount THEN "InsufficientTokens"
    ELSE NoneVal

(* SELECT * FROM prosumers WHERE address = from, and the checks; an early  *)
(* return drops the transaction.                                           *)
TransferSelect(c) ==
    /\ tx[c].pc = "begun"
    /\ LET r == SenderCheck(prosumers[tx[c].from], tx[c].amount, tx[c].token_type)
       IN tx' = [tx EXCEPT ![c] = IF r = NoneVal
                                  THEN [@ EXCEPT !.pc = "checked"]
                                  ELSE [IdleTx EXCEPT !.result = r]]
    /\ UNCHANGED <<prosumers, orders, trades, proposed, settle, ntransfers,
                 state, reply, uuids, now,
                 returned,
                 auth_store, served>>

(* UPDATE prosumers SET <token> = <token> - $1 WHERE address = from *)
TransferDebit(c) ==
    /\ tx[c].pc = "checked"
    /\ ~LockedByOther(c, tx[c].from)
    /\ tx' = [tx EXCEPT ![c].pc = "debited"]
    /\ UNCHANGED <<prosumers, orders, trades, proposed, settle, ntransfers,
                 state, reply, uuids, now,
                 returned,
                 auth_store, served>>

(* UPDATE prosumers SET <token> = <token> + $1 WHERE address = to *)
TransferCredit(c) ==
    /\ tx[c].pc = "debited"
    /\ ~LockedByOther(c, tx[c].to)
    /\ tx' = [tx EXCEPT ![c].pc = "credited"]
    /\ UNCHANGED <<prosumers, orders, trades, proposed, settle, ntransfers,
                 state, reply, uuids, now,
                 returned,
                 auth_store, served>>

(* The rows if the commit made only the debit visible. *)
CommitRowsDebitOnly(c) ==
    [a \in Addresses |->
        IF ~prosumers[a].present THEN prosumers[a]
        ELSE AddBalance(prosumers[a], tx[c].token_type,
                        - (IF a = tx[c].from THEN tx[c].amount ELSE 0))]

(* The rows as the commit of transaction c leaves them. *)
CommitRows(c) ==
    [a \in Addresses |->
        IF ~prosumers[a].present THEN prosumers[a]
        ELSE AddBalance(prosumers[a], tx[c].token_type,
                        (IF a = tx[c].to THEN tx[c].amount ELSE 0)
                        - (IF a = tx[c].from THEN tx[c].amount ELSE 0))]

(* tx.commit(): both updates become visible at once, the locks are released *)
TransferCommit(c) ==
    /\ tx[c].pc = "credited"
    /\ prosumers' = CommitRows(c)
    /\ tx' = [tx EXCEPT ![c] = [IdleTx EXCEPT !.result = "Ok"]]
    /\ UNCHANGED <<orders, trades, proposed, settle, ntransfers,
                 state, reply, uuids, now,
                 returned,
                 auth_store, served>>

(* Two transactions each waiting for a row the other has locked: the       *)
(* database aborts one of them, its UPDATE returns an error and dropping   *)
(* the transaction rolls its updates back.                                 *)
TransferDeadlock(c) ==
    /\ tx[c].pc = "debited"
    /\ \E d \in Clients \ {c} :
          /\ tx[d].pc = "debited"
          /\ tx[c].to \in LockedBy(d)
          /\ tx[d].to \in LockedBy(c)
    /\ tx' = [tx EXCEPT ![c] = [IdleTx EXCEPT !.result = "SqlxError"]]
    /\ UNCHANGED <<prosumers, orders, trades, proposed, settle, ntransfers,
                 state, reply, uuids, now,
                 returned,
                 auth_store, served>>

-----------------------------------------------------------------------------
(* Order store *)

OrderIds == 1..Len(orders)

(* INSERT INTO orders ... : the row is stored as given by the caller;      *)
(* created_at follows the order of insertion.                              *)
CreateOrder(address, order_type, energy_amount, price_per_unit, status, expires_at) ==
    /\ Len(orders) < MaxOrders
    /\ orders' = Append(orders,
                   [prosumer_address |-> address, order_type |-> order_type,
                    energy_amount |-> energy_amount,
                    price_per_unit |-> price_per_unit,
                    total_price |-> energy_amount * price_per_unit,
                    status |-> status, expires_at |-> expires_at])
    /\ UNCHANGED <<prosumers, trades, proposed, settle, tx, ntransfers,
                 state, reply, uuids, now,
                 returned,
                 auth_store, served>>

(* Option<T>: None is the empty sequence, Some(v) the sequence <<v>>. *)
None == <<>>
Some(v) == <<v>>
Options(S) == {None} \cup {Some(v) : v \in S}

(* COALESCE($n, column): the column keeps its value when the argument is   *)
(* None and takes the argument otherwise.                                   *)
Coalesce(opt, column) == IF opt = None THEN column ELSE opt[1]

(* UPDATE prosumers SET energy_generated = COALESCE($3, energy_generated),  *)
(* energy_consumed = COALESCE($4, energy_consumed) WHERE address = $1.      *)
UpdatedProsumer(row, energy_generated, energy_consumed) ==
    [row EXCEPT !.energy_generated = Coalesce(energy_generated, @),
                !.energy_consumed = Coalesce(energy_consumed, @)]

(* update_prosumer: a missing row is NotFound and nothing is written. The  *)
(* name column is not part of the modelled row.                            *)
UpdateProsumer(address, energy_generated, energy_consumed) ==
    /\ prosumers[address].present
    /\ prosumers' = [prosumers EXCEPT
                       ![address] = UpdatedProsumer(@, energy_generated,
                                                    energy_consumed)]
    /\ UNCHANGED <<orders, trades, proposed, settle, tx, ntransfers,
                 state, reply, uuids, now,
                 returned,
                 auth_store, served>>

(* The row that the UPDATE of update_order leaves: COALESCE keeps a column *)
(* whose argument is NULL; $3 * $4 is NULL unless both are given.          *)
UpdatedOrder(o, status, energy_amount, price_per_unit) ==
    [o EXCEPT
       !.status = IF status = None THEN @ ELSE status[1],
       !.energy_amount = IF energy_amount = None THEN @ ELSE energy_amount[1],
       !.price_per_unit = IF price_per_unit = None THEN @ ELSE price_per_unit[1],
       !.total_price = IF energy_amount = None \/ price_per_unit = None
                       THEN @ ELSE energy_amount[1] * price_per_unit[1]]

UpdateOrder(id, status, energy_amount, price_per_unit) ==
    /\ id \in OrderIds
    /\ orders' = [orders EXCEPT
                    ![id] = UpdatedOrder(@, status, energy_amount, price_per_unit)]
    /\ UNCHANGED <<prosumers, trades, proposed, settle, tx, ntransfers,
                 state, reply, uuids, now,
                 returned,
                 auth_store, served>>

(* UPDATE orders SET status = 'cancelled' WHERE id = $1 *)
CancelledOrder(o) == [o EXCEPT !.status = "cancelled"]

CancelOrder(id) ==
    /\ id \in OrderIds
    /\ orders' = [orders EXCEPT ![id] = CancelledOrder(@)]
    /\ UNCHANGED <<prosumers, trades, proposed, settle, tx, ntransfers,
                 state, reply, uuids, now,
                 returned,
                 auth_store, served>>

-----------------------------------------------------------------------------
(* Matching engine *)

MatchLimit == 10

(* The join condition without its conditions on the status. *)
JoinConditionAnyStatus(b, s) ==
    /\ b.order_type = "buy" /\ s.order_type = "sell"
    /\ b.price_per_unit >= s.price_per_unit

(* The join condition of the query of match_orders. *)
JoinCondition(b, s) ==
    /\ b.order_type = "buy" /\ s.order_type = "sell"
    /\ b.price_per_unit >= s.price_per_unit
    /\ b.status = "active" /\ s.status = "active"

(* The trade of one row of the join when it is priced at the buy price. *)
CandidateTradeAtBuyPrice(os, bi, si) ==
    LET trade_price  == os[bi].price_per_unit
        trade_amount == Min(os[bi].energy_amount, os[si].energy_amount)
    IN [buy_order_id |-> bi, sell_order_id |-> si,
        buyer_address |-> os[bi].prosumer_address,
        seller_address |-> os[si].prosumer_address,
        energy_amount |-> trade_amount,
        price_per_unit |-> trade_price,
        total_price |-> trade_amount * trade_price,
        status |-> "pending"]

(* The trade built from one row of the join. *)
CandidateTrade(os, bi, si) ==
    LET trade_price  == os[si].price_per_unit
        trade_amount == Min(os[bi].energy_amount, os[si].energy_amount)
    IN [buy_order_id |-> bi, sell_order_id |-> si,
        buyer_address |-> os[bi].prosumer_address,
        seller_address |-> os[si].prosumer_address,
        energy_amount |-> trade_amount,
        price_per_unit |-> trade_price,
        total_price |-> trade_amount * trade_price,
        status |-> "pending"]

(* Rows of the join in ORDER BY b.created_at, s.created_at, from pair k on *)
RECURSIVE JoinRows(_, _)
JoinRows(os, k) ==
    LET n  == Len(os)
        bi == (k \div n) + 1
        si == (k % n) + 1
    IN IF n = 0 \/ k >= n * n THEN <<>>
       ELSE (IF JoinCondition(os[bi], os[si])
             THEN <<CandidateTrade(os, bi, si)>> ELSE <<>>)
            \o JoinRows(os, k + 1)

(* The last MatchLimit rows of the join in place of the first. *)
MatchResultTail(os) ==
    LET rows == JoinRows(os, 0)
    IN SubSeq(rows, Len(rows) - Min(Len(rows), MatchLimit) + 1, Len(rows))

(* The vector returned by match_orders: the first MatchLimit rows. *)
MatchResult(os) ==
    LET rows == JoinRows(os, 0)
    IN SubSeq(rows, 1, Min(Len(rows), MatchLimit))

(* A pass that also closes the orders of its first candidate. *)
MatchOrdersClosing ==
    /\ MatchResult(orders) # <<>>
    /\ Len(proposed) + Len(MatchResult(orders)) <= MaxInflight
    /\ proposed' = proposed \o MatchResult(orders)
    /\ orders' = [orders EXCEPT
                    ![MatchResult(orders)[1].buy_order_id].status = "completed",
                    ![MatchResult(orders)[1].sell_order_id].status = "completed"]
    /\ UNCHANGED <<prosumers, trades, settle, tx, ntransfers,
                 state, reply, uuids, now,
                 returned,
                 auth_store, served>>

(* One matching pass; the caller keeps the returned candidates. *)
MatchOrders ==
    /\ MatchResult(orders) # <<>>
    /\ Len(proposed) + Len(MatchResult(orders)) <= MaxInflight
    /\ proposed' = proposed \o MatchResult(orders)
    /\ UNCHANGED <<prosumers, orders, trades, settle, tx, ntransfers,
                 state, reply, uuids, now,
                 returned,
                 auth_store, served>>

(* One matching pass of a caller that holds no candidate of an earlier    *)
(* pass: it keeps the whole vector returned.                               *)
MatchOrdersBatch ==
    /\ proposed = <<>>
    /\ MatchResult(orders) # <<>>
    /\ proposed' = MatchResult(orders)
    /\ UNCHANGED <<prosumers, orders, trades, settle, tx, ntransfers,
                   state, reply, uuids, now, returned,
                 auth_store, served>>

-----------------------------------------------------------------------------
(* Settlement: execute_trade is three statements, each committed on its own *)

RemoveAt(seq, i) == SubSeq(seq, 1, i - 1) \o SubSeq(seq, i + 1, Len(seq))

IdleSettle == [pc |-> "idle", trade |-> 0, result |-> NoneVal]

(* create_trade(trade): the candidate is inserted with the status given    *)
ExecCreateTrade(s, i, status) ==
    /\ settle[s].pc = "idle"
    /\ i \in 1..Len(proposed)
    /\ Len(trades) < MaxTrades
    /\ trades' = Append(trades, [proposed[i] EXCEPT !.status = status])
    /\ proposed' = RemoveAt(proposed, i)
    /\ settle' = [settle EXCEPT ![s] = [pc |-> "created",
                                        trade |-> Len(trades) + 1,
                                        result |-> NoneVal]]
    /\ UNCHANGED <<prosumers, orders, tx, ntransfers,
                 state, reply, uuids, now,
                 returned,
                 auth_store, served>>

(* update_order(buy_order_id, Some("completed"), None, None) *)
ExecUpdateBuy(s) ==
    /\ settle[s].pc = "created"
    /\ orders' = [orders EXCEPT ![trades[settle[s].trade].buy_order_id] =
                    UpdatedOrder(@, Some("completed"), None, None)]
    /\ settle' = [settle EXCEPT ![s].pc = "buy_updated"]
    /\ UNCHANGED <<prosumers, trades, proposed, tx, ntransfers,
                 state, reply, uuids, now,
                 returned,
                 auth_store, served>>

(* update_order(sell_order_id, Some("completed"), None, None); Ok(trade) *)
ExecUpdateSell(s) ==
    /\ settle[s].pc = "buy_updated"
    /\ orders' = [orders EXCEPT ![trades[settle[s].trade].sell_order_id] =
                    UpdatedOrder(@, Some("completed"), None, None)]
    /\ settle' = [settle EXCEPT ![s] = [IdleSettle EXCEPT !.result = "Ok"]]
    /\ UNCHANGED <<prosumers, trades, proposed, tx, ntransfers,
                 state, reply, uuids, now,
                 returned,
                 auth_store, served>>

(* execute_trade on the first candidate held, run to its end without     *)
(* another caller in between: the trade is inserted as given and both      *)
(* orders are set to completed.                                            *)
ExecuteTrade ==
    /\ proposed # <<>>
    /\ trades' = Append(trades, proposed[1])
    /\ orders' = [orders EXCEPT
                    ![proposed[1].buy_order_id] =
                        UpdatedOrder(@, Some("completed"), None, None),
                    ![proposed[1].sell_order_id] =
                        UpdatedOrder(@, Some("completed"), None, None)]
    /\ proposed' = Tail(proposed)
    /\ UNCHANGED <<prosumers, settle, tx, ntransfers,
                   state, reply, uuids, now, returned,
                 auth_store, served>>

(* An update_order statement of execute_trade returns an sqlx error: the   *)
(* `?` leaves execute_trade with what was committed so far.                *)
ExecUpdateFails(s) ==
    /\ settle[s].pc \in {"created", "buy_updated"}
    /\ settle' = [settle EXCEPT ![s].pc = "idle", ![s].result = "SqlxError"]
    /\ UNCHANGED <<prosumers, orders, trades, proposed, tx, ntransfers,
                 state, reply, uuids, now,
                 returned,
                 auth_store, served>>

-----------------------------------------------------------------------------
(* In-memory handlers (src/src/handlers.rs).  A handler holds the lock of  *)
(* the shared LedgerState from its first line to its return, so a call is  *)
(* one atomic step; on the routes of create_app the auth_middleware runs   *)
(* before the handler.  Prosumer, EnergyMarket and TokenSystem come from   *)
(* the ledger_core crate.                                                  *)

MaxEnergy == 2

Roles        == {"admin", "trader", "readonly"}
ProsumerNames == {"solar"}
GenerationInputs == {1}

PathsWithOrders == {"/api/energy/orders", "/api/energy/orders/cancel"}
PathsWithCancel == {"/api/energy/orders/cancel"}

CheckPermission(user_role, required_permission) ==
    CASE user_role = "admin"    -> TRUE
      [] user_role = "trader"   ->
            required_permission \in {"read", "trade", "create_order", "cancel_order"}
      [] user_role = "readonly" -> required_permission = "read"
      [] OTHER                  -> FALSE

(* The first arm that matches decides. *)
GetEndpointPermission(method, path) ==
    CASE method = "GET"                              -> "read"
      [] method = "POST" /\ path \in PathsWithOrders -> "trade"
      [] method = "POST" /\ path \in PathsWithCancel -> "cancel_order"
      [] method = "POST"                             -> "create"
      [] method = "PUT"                              -> "update"
      [] method = "DELETE"                           -> "delete"
      [] OTHER                                       -> "read"

(* auth_middleware lets the request of an authenticated user through. *)
Permitted(role, method, path) ==
    CheckPermission(role, GetEndpointPermission(method, path))

NoProsumer == [present |-> FALSE, name |-> NoneVal,
               energy_generated |-> 0, energy_consumed |-> 0,
               grid_tokens |-> 0, watt_tokens |-> 0]

NewLedgerState == [prosumers |-> [a \in Addresses |-> NoProsumer],
                   buy_orders |-> <<>>, sell_orders |-> <<>>,
                   blockchain_db |-> 0,
                   user_balances |-> [a \in Addresses |->
                                        [present |-> FALSE, grid_balance |-> 0]],
                   poisoned |-> FALSE]

(* The last call: its handler, the role of the authenticated caller, the   *)
(* address and order id of the request body, and the response.             *)
Reply(handler, role, address, order_id, result) ==
    [handler |-> handler, role |-> role, address |-> address,
     order_id |-> order_id, result |-> result]

NoReply == Reply(NoneVal, NoneVal, NoneVal, 0, NoneVal)

(* Prosumer::new(address, name): counters and balances start at zero. *)
NewProsumer(address, name) ==
    [present |-> TRUE, name |-> name,
     energy_generated |-> 0, energy_consumed |-> 0,
     grid_tokens |-> 0, watt_tokens |-> 0]

(* Prosumer::generate_energy(amount) *)
GenerateEnergy(p, amount) == [p EXCEPT !.energy_generated = @ + amount]

(* handlers::create_prosumer: HashMap::insert replaces the value of a key  *)
(* that is already in the map.                                             *)
HandlerCreateProsumer(role, address, name) ==
    /\ IF Permitted(role, "POST", "/api/energy/prosumers")
       THEN /\ state' = [state EXCEPT
                           !.prosumers[address] = NewProsumer(address, name)]
            /\ reply' = Reply("create_prosumer", role, address, 0, "success")
       ELSE /\ state' = state
            /\ reply' = Reply("create_prosumer", role, address, 0, "forbidden")
    /\ UNCHANGED <<prosumers, orders, trades, proposed, settle, tx, ntransfers,
                   uuids, now,
                 returned,
                 auth_store, served>>

(* handlers::update_energy_generation *)
HandlerUpdateEnergyGeneration(role, address, amount) ==
    /\ state.prosumers[address].energy_generated + amount <= MaxEnergy
    /\ IF ~Permitted(role, "POST", "/api/energy/generation")
       THEN /\ state' = state
            /\ reply' = Reply("update_energy_generation", role, address, 0,
                              "forbidden")
       ELSE IF state.prosumers[address].present
       THEN /\ state' = [state EXCEPT
                           !.prosumers[address] = GenerateEnergy(@, amount)]
            /\ reply' = Reply("update_energy_generation", role, address, 0,
                              "success")
       ELSE /\ state' = state
            /\ reply' = Reply("update_energy_generation", role, address, 0,
                              "error")
    /\ UNCHANGED <<prosumers, orders, trades, proposed, settle, tx, ntransfers,
                   uuids, now,
                 returned,
                 auth_store, served>>

(* The orders of the in-memory market, buy orders first. *)
MarketOrders(st) == st.buy_orders \o st.sell_orders

MarketIds(st) == {MarketOrders(st)[i].id : i \in 1..Len(MarketOrders(st))}

(* EnergyMarket::place_order(order): an order with a positive amount and a *)
(* positive price is stored on the side of its type.                       *)
PlaceOrderAccepts(order) == order.energy_amount > 0 /\ order.price_per_kwh > 0

PlaceOrder(st, order) ==
    IF ~PlaceOrderAccepts(order) THEN st
    ELSE IF order.order_type = "buy"
    THEN [st EXCEPT !.buy_orders = Append(@, order)]
    ELSE [st EXCEPT !.sell_orders = Append(@, order)]

(* handlers::create_energy_order_legacy: the id is a fresh UUID. *)
HandlerCreateEnergyOrderLegacy(trader_address, order_type, energy_amount, price_per_kwh) ==
    /\ uuids < MaxOrders
    /\ IF order_type \notin OrderTypes
       THEN /\ state' = state
            /\ uuids' = uuids
            /\ reply' = Reply("create_energy_order_legacy", NoneVal,
                              trader_address, 0, "error")
       ELSE LET order == [id |-> uuids + 1, trader_address |-> trader_address,
                          order_type |-> order_type,
                          energy_amount |-> energy_amount,
                          price_per_kwh |-> price_per_kwh, is_active |-> TRUE]
            IN /\ state' = PlaceOrder(state, order)
               /\ uuids' = uuids + 1
               /\ reply' = Reply("create_energy_order_legacy", NoneVal,
                                 trader_address, order.id,
                                 IF PlaceOrderAccepts(order)
                                 THEN "success" ELSE "error")
    /\ UNCHANGED <<prosumers, orders, trades, proposed, settle, tx, ntransfers,
                   now,
                 returned,
                 auth_store, served>>

(* The index of the first order of seq with the id and the trader address  *)
(* of the request, 0 when there is none.                                   *)
RECURSIVE FindOrder(_, _, _, _)
FindOrder(seq, i, order_id, trader_address) ==
    IF i > Len(seq) THEN 0
    ELSE IF seq[i].id = order_id /\ seq[i].trader_address = trader_address
    THEN i
    ELSE FindOrder(seq, i + 1, order_id, trader_address)

(* handlers::cancel_energy_order: the request body names the order and the *)
(* trader address; the order found is removed from its vector.             *)
HandlerCancelEnergyOrder(role, order_id, trader_address) ==
    /\ LET buy_index  == FindOrder(state.buy_orders, 1, order_id, trader_address)
           sell_index == FindOrder(state.sell_orders, 1, order_id, trader_address)
       IN IF ~Permitted(role, "POST", "/api/energy/orders/cancel")
          THEN /\ state' = state
               /\ reply' = Reply("cancel_energy_order", role, trader_address,
                                 order_id, "forbidden")
          ELSE IF buy_index # 0
          THEN /\ state' = [state EXCEPT !.buy_orders = RemoveAt(@, buy_index)]
               /\ reply' = Reply("cancel_energy_order", role, trader_address,
                                 order_id, "success")
          ELSE IF sell_index # 0
          THEN /\ state' = [state EXCEPT !.sell_orders = RemoveAt(@, sell_index)]
               /\ reply' = Reply("cancel_energy_order", role, trader_address,
                                 order_id, "success")
          ELSE /\ state' = state
               /\ reply' = Reply("cancel_energy_order", role, trader_address,
                                 order_id, "error")
    /\ UNCHANGED <<prosumers, orders, trades, proposed, settle, tx, ntransfers,
                   uuids, now,
                 returned,
                 auth_store, served>>

(* Audit log: LedgerState::add_blockchain_transaction *)

MaxAudit == 3

(* BlockchainDatabase::add_transaction returns Ok or an error. *)
AuditOutcomes == {"Ok", "Err"}

(* add_blockchain_transaction: the transaction is stored when the database *)
(* accepts it; blockchain_db counts the transactions stored.               *)
AddBlockchainTransaction(st, outcome) ==
    IF outcome = "Ok" THEN [st EXCEPT !.blockchain_db = @ + 1] ELSE st

(* handlers::create_energy_order_with_blockchain: the order is placed in   *)
(* the Ok arm of the match on add_blockchain_transaction only.             *)
HandlerCreateEnergyOrderWithBlockchain(trader_address, order_type, energy_amount, price_per_kwh, outcome) ==
    /\ uuids < MaxOrders
    /\ state.blockchain_db < MaxAudit
    /\ IF order_type \notin OrderTypes
       THEN /\ state' = state
            /\ uuids' = uuids
            /\ reply' = Reply("create_energy_order_with_blockchain", NoneVal,
                              trader_address, 0, "error")
       ELSE LET order == [id |-> uuids + 1, trader_address |-> trader_address,
                          order_type |-> order_type,
                          energy_amount |-> energy_amount,
                          price_per_kwh |-> price_per_kwh, is_active |-> TRUE]
            IN /\ uuids' = uuids + 1
               /\ IF outcome = "Ok"
                  THEN /\ state' = PlaceOrder(
                                     AddBlockchainTransaction(state, outcome),
                                     order)
                       /\ reply' = Reply("create_energy_order_with_blockchain",
                                         NoneVal, trader_address, order.id,
                                         IF PlaceOrderAccepts(order)
                                         THEN "success" ELSE "error")
                  ELSE /\ state' = AddBlockchainTransaction(state, outcome)
                       /\ reply' = Reply("create_energy_order_with_blockchain",
                                         NoneVal, trader_address, order.id,
                                         "blockchain_failed")
    /\ UNCHANGED <<prosumers, orders, trades, proposed, settle, tx, ntransfers,
                   now, returned,
                 auth_store, served>>

(* handlers::create_prosumer_with_blockchain: the prosumer is inserted in  *)
(* the Ok arm of the match on add_blockchain_transaction only.             *)
HandlerCreateProsumerWithBlockchain(address, name, outcome) ==
    /\ state.blockchain_db < MaxAudit
    /\ IF outcome = "Ok"
       THEN /\ state' = [AddBlockchainTransaction(state, outcome) EXCEPT
                           !.prosumers[address] = NewProsumer(address, name)]
            /\ reply' = Reply("create_prosumer_with_blockchain", NoneVal,
                              address, 0, "success")
       ELSE /\ state' = AddBlockchainTransaction(state, outcome)
            /\ reply' = Reply("create_prosumer_with_blockchain", NoneVal,
                              address, 0, "blockchain_failed")
    /\ UNCHANGED <<prosumers, orders, trades, proposed, settle, tx, ntransfers,
                   uuids, now, returned,
                 auth_store, served>>

-----------------------------------------------------------------------------
(* Authentication: AuthStore, auth_middleware and the handlers behind it *)

MaxUsers == 3
MaxKeys == 1

(* A user id is the position of the user in users, an API key id the       *)
(* position of the key in api_keys: both are fresh UUIDs in the code.      *)
UserRow(username, email, role) ==
    [username |-> username, email |-> email, role |-> role, is_active |-> TRUE]

(* AuthStore::new: create_default_admin stores the user admin. *)
NewAuthStore ==
    [users |-> <<UserRow("admin", "admin@energy-trading.com", "admin")>>,
     api_keys |-> <<>>]

(* The headers of a request: a Bearer token and an X-API-Key, each absent  *)
(* or present. A token is named by the id of the user it was issued to, a  *)
(* key by the id of the ApiKey it was issued for; 0 is a value that was    *)
(* never issued.                                                           *)
Credentials(store) ==
    [bearer : Options(0..Len(store.users)),
     api_key : Options(0..Len(store.api_keys))]

NoContext == [user_id |-> 0, role |-> NoneVal, auth_type |-> NoneVal]

NoRequest == [method |-> NoneVal, path |-> NoneVal,
              credential |-> [bearer |-> None, api_key |-> None],
              outcome |-> NoneVal, extracted |-> NoContext,
              context |-> NoContext, result |-> NoneVal]

(* A create_user that stores the user whatever is stored already. *)
UserExistsNever(users, username, email) == FALSE

(* users.values().any(|u| u.username == .. || u.email == ..) *)
UserExists(users, username, email) ==
    \E i \in 1..Len(users) :
        users[i].username = username \/ users[i].email = email

(* AuthStore::create_user, under the lock on users from its first line to *)
(* its return.                                                             *)
CreateUser(store, username, email, role) ==
    IF UserExists(store.users, username, email)
    THEN [store |-> store, result |-> "UserAlreadyExists"]
    ELSE [store |-> [store EXCEPT
                       !.users = Append(@, UserRow(username, email, role))],
          result |-> "Ok"]

(* A key that is accepted whether it is active or not. *)
KeyAcceptedInactive(k, time) ==
    k.expires_at = None \/ k.expires_at[1] > time

(* The condition of validate_api_key on a key whose hash verifies. *)
KeyAccepted(k, time) ==
    /\ k.is_active
    /\ k.expires_at = None \/ k.expires_at[1] > time

(* AuthStore::validate_api_key: the id of the key accepted, 0 for          *)
(* ApiKeyNotFound. Only the hash of the key presented verifies.            *)
ValidateApiKey(store, key, time) ==
    IF key \in 1..Len(store.api_keys) /\ KeyAccepted(store.api_keys[key], time)
    THEN key ELSE 0

(* AuthStore::validate_jwt and get_user_by_id: the id of the user of a     *)
(* token that verifies, 0 for InvalidToken.                                *)
ValidateJwt(store, token) ==
    IF token \in 1..Len(store.users) THEN token ELSE 0

(* extract_auth_context: the Bearer token is tried first and its error is  *)
(* returned; the API key is tried when there is no Bearer token; the role  *)
(* of an API-key request is the role of the key.                           *)
ExtractAuthContext(store, credential, time) ==
    IF credential.bearer # None
    THEN IF ValidateJwt(store, credential.bearer[1]) # 0
         THEN [user_id |-> credential.bearer[1],
               role |-> store.users[credential.bearer[1]].role,
               auth_type |-> "JWT"]
         ELSE NoContext
    ELSE IF credential.api_key # None
    THEN LET key == ValidateApiKey(store, credential.api_key[1], time)
         IN IF key # 0
            THEN [user_id |-> store.api_keys[key].user_id,
                  role |-> store.api_keys[key].role,
                  auth_type |-> "ApiKey"]
            ELSE NoContext
    ELSE NoContext

(* validate_api_key sets last_used on the key it accepts. *)
StoreAfterExtract(store, credential, time) ==
    IF credential.bearer = None /\ credential.api_key # None
       /\ ValidateApiKey(store, credential.api_key[1], time) # 0
    THEN [store EXCEPT !.api_keys[credential.api_key[1]].last_used = Some(time)]
    ELSE store

PublicEndpoints ==
    {"/health", "/api/auth/login", "/api/auth/register", "/api/auth/refresh",
     "/metrics", "/docs", "/swagger-ui", "/openapi.json"}

IsPublicEndpoint(path) == path \in PublicEndpoints

(* auth_middleware: what it answers, the context that the headers gave    *)
(* and the context it attaches to the request it forwards.                 *)
AuthMiddleware(store, method, path, credential, time) ==
    LET ctx == ExtractAuthContext(store, credential, time)
    IN IF IsPublicEndpoint(path)
       THEN [outcome |-> "forwarded", extracted |-> NoContext,
             context |-> NoContext, store |-> store]
       ELSE IF ctx = NoContext
       THEN [outcome |-> "unauthorized", extracted |-> NoContext,
             context |-> NoContext,
             store |-> StoreAfterExtract(store, credential, time)]
       ELSE IF ~CheckPermission(ctx.role, GetEndpointPermission(method, path))
       THEN [outcome |-> "forbidden", extracted |-> ctx,
             context |-> NoContext,
             store |-> StoreAfterExtract(store, credential, time)]
       ELSE [outcome |-> "forwarded", extracted |-> ctx, context |-> ctx,
             store |-> StoreAfterExtract(store, credential, time)]

Served(method, path, credential, mw, result) ==
    [method |-> method, path |-> path, credential |-> credential,
     outcome |-> mw.outcome, extracted |-> mw.extracted,
     context |-> mw.context, result |-> result]

(* A handler that takes Extension<AuthContext> is not run for a request    *)
(* that carries no context: the extractor rejects the request.             *)
HandlerResult(mw, result) ==
    IF mw.outcome # "forwarded" THEN NoneVal
    ELSE IF mw.context = NoContext THEN "MissingExtension"
    ELSE result

OtherUnchanged ==
    UNCHANGED <<prosumers, orders, trades, proposed, settle, tx, ntransfers,
                state, reply, uuids, now, returned>>

(* POST /api/auth/register -> register -> create_user *)
Register(credential, username, email, role) ==
    /\ Len(auth_store.users) < MaxUsers
    /\ LET mw == AuthMiddleware(auth_store, "POST", "/api/auth/register",
                                credential, now)
           created == CreateUser(mw.store, username, email, role)
       IN /\ auth_store' = created.store
          /\ served' = Served("POST", "/api/auth/register", credential, mw,
                              created.result)
    /\ OtherUnchanged

(* POST /api/auth/refresh -> refresh_token *)
RefreshToken(credential) ==
    /\ LET mw == AuthMiddleware(auth_store, "POST", "/api/auth/refresh",
                                credential, now)
       IN /\ auth_store' = mw.store
          /\ served' = Served("POST", "/api/auth/refresh", credential, mw,
                              HandlerResult(mw, "Ok"))
    /\ OtherUnchanged

(* GET /api/auth/me -> get_current_user *)
GetCurrentUser(credential) ==
    /\ LET mw == AuthMiddleware(auth_store, "GET", "/api/auth/me",
                                credential, now)
       IN /\ auth_store' = mw.store
          /\ served' = Served("GET", "/api/auth/me", credential, mw,
                              HandlerResult(mw, "Ok"))
    /\ OtherUnchanged

(* AuthStore::create_api_key: the key has the role "api" and expires       *)
(* expires_in_days after now, or never.                                    *)
NewApiKey(user_id, expires_in_days, time) ==
    [user_id |-> user_id, role |-> "api", is_active |-> TRUE,
     last_used |-> None,
     expires_at |-> IF expires_in_days = None THEN None
                    ELSE Some(time + expires_in_days[1])]

(* POST /api/auth/api-keys -> create_api_key *)
CreateApiKey(credential, expires_in_days) ==
    /\ Len(auth_store.api_keys) < MaxKeys
    /\ LET mw == AuthMiddleware(auth_store, "POST", "/api/auth/api-keys",
                                credential, now)
           run == mw.outcome = "forwarded" /\ mw.context # NoContext
       IN /\ auth_store' =
                IF run
                THEN [mw.store EXCEPT
                        !.api_keys = Append(@, NewApiKey(mw.context.user_id,
                                                         expires_in_days, now))]
                ELSE mw.store
          /\ served' = Served("POST", "/api/auth/api-keys", credential, mw,
                              HandlerResult(mw, "Ok"))
    /\ OtherUnchanged

(* The answer of revoke_api_key. *)
RevokeResult(store, ctx, key_id) ==
    IF key_id \notin 1..Len(store.api_keys) THEN "NotFound"
    ELSE IF store.api_keys[key_id].user_id = ctx.user_id \/ ctx.role = "admin"
    THEN "Ok" ELSE "Forbidden"

(* DELETE /api/auth/api-keys/:key_id -> revoke_api_key *)
RevokeApiKey(credential, key_id) ==
    /\ LET mw == AuthMiddleware(auth_store, "DELETE", "/api/auth/api-keys/:key_id",
                                credential, now)
           run == mw.outcome = "forwarded" /\ mw.context # NoContext
           result == RevokeResult(mw.store, mw.context, key_id)
       IN /\ auth_store' =
                IF run /\ result = "Ok"
                THEN [mw.store EXCEPT !.api_keys[key_id].is_active = FALSE]
                ELSE mw.store
          /\ served' = Served("DELETE", "/api/auth/api-keys/:key_id",
                              credential, mw, HandlerResult(mw, result))
    /\ OtherUnchanged

(* Token accounts of the in-memory TokenSystem.  state.poisoned is the     *)
(* poison flag of the mutex around the LedgerState: it is set by a panic   *)
(* of a handler that holds the lock, and lock().unwrap() panics on it.     *)

TransferAmounts == {0, 1}

TransferTokenTypes == {"grid", "gold"}

(* TokenSystem::create_user_account(address): an address that has an       *)
(* account is refused, a new account starts with a balance of zero.        *)
CreateUserAccount(st, address) ==
    IF st.user_balances[address].present THEN st
    ELSE [st EXCEPT !.user_balances[address] =
                       [present |-> TRUE, grid_balance |-> 0]]

(* A handler whose first statement state.lock().unwrap() finds the mutex   *)
(* poisoned: it panics before it reads or writes the state.                *)
LockPanics(handler, address) ==
    /\ state.poisoned
    /\ state' = state
    /\ reply' = Reply(handler, NoneVal, address, 0, "panic")

(* handlers::create_token_account *)
HandlerCreateTokenAccount(address) ==
    /\ \/ LockPanics("create_token_account", address)
       \/ /\ ~state.poisoned
          /\ state' = CreateUserAccount(state, address)
          /\ reply' = Reply("create_token_account", NoneVal, address, 0,
                            IF state.user_balances[address].present
                            THEN "error" ELSE "success")
    /\ UNCHANGED <<prosumers, orders, trades, proposed, settle, tx, ntransfers,
                   uuids, now, returned, auth_store, served>>

(* handlers::get_token_balance *)
HandlerGetTokenBalance(address) ==
    /\ \/ LockPanics("get_token_balance", address)
       \/ /\ ~state.poisoned
          /\ state' = state
          /\ reply' = Reply("get_token_balance", NoneVal, address, 0,
                            IF state.user_balances[address].present
                            THEN "success" ELSE "not_found")
    /\ UNCHANGED <<prosumers, orders, trades, proposed, settle, tx, ntransfers,
                   uuids, now, returned, auth_store, served>>

(* handlers::transfer_tokens with token_type "grid": the sender is looked  *)
(* up and debited, then get_mut(&request.to).unwrap() panics when the      *)
(* destination has no account; the guard of the lock is dropped during the *)
(* panic and poisons the mutex.  A type other than grid and watt is an     *)
(* error; watt transfers are made by ledger_core and are left out.         *)
HandlerTransferTokens(from, to, amount, token_type) ==
    /\ \/ LockPanics("transfer_tokens", from)
       \/ /\ ~state.poisoned
          /\ IF token_type # "grid"
                \/ ~state.user_balances[from].present
                \/ state.user_balances[from].grid_balance < amount
             THEN /\ state' = state
                  /\ reply' = Reply("transfer_tokens", NoneVal, from, 0, "error")
             ELSE LET debited == [state EXCEPT
                                    !.user_balances[from].grid_balance = @ - amount]
                  IN IF ~state.user_balances[to].present
                     THEN /\ state' = [debited EXCEPT !.poisoned = TRUE]
                          /\ reply' = Reply("transfer_tokens", NoneVal, from, 0,
                                            "panic")
                     ELSE /\ state' = [debited EXCEPT
                                         !.user_balances[to].grid_balance = @ + amount]
                          /\ reply' = Reply("transfer_tokens", NoneVal, from, 0,
                                            "success")
    /\ UNCHANGED <<prosumers, orders, trades, proposed, settle, tx, ntransfers,
                   uuids, now, returned, auth_store, served>>

-----------------------------------------------------------------------------
(* Read side: listing and statistics *)

MaxPage == 2

PageInputs == 1..MaxPage

LimitInputs == 1..MaxPage

(* A page may be 0: page and limit are any u32 of the caller. *)
PageNumbers == 0..MaxPage

NoReturn == [call |-> NoneVal, rows |-> <<>>, total_energy_traded |-> 0,
             total_volume |-> 0, outcome |-> NoneVal, offset |-> 0]

(* Whether the build checks integer overflow: a debug build does and the   *)
(* subtraction panics, a release build does not and the value wraps.       *)
OverflowChecks == BOOLEAN

Reverse(seq) == [i \in 1..Len(seq) |-> seq[Len(seq) + 1 - i]]

(* WHERE 1=1 [AND status = $][AND order_type = $][AND prosumer_address = $] *)
OrderFilter(o, status, order_type, prosumer_address) ==
    /\ status = None \/ o.status = status[1]
    /\ order_type = None \/ o.order_type = order_type[1]
    /\ prosumer_address = None \/ o.prosumer_address = prosumer_address[1]

(* let offset = (page - 1) * limit, as the integer it denotes: a value    *)
(* below zero is outside u32 and stands for the wrapped 2^32 + offset.    *)
PageOffset(page, limit) == (page - 1) * limit

(* page - 1 leaves the range of u32. *)
PageUnderflows(page) == page - 1 < 0

(* LIMIT limit OFFSET offset over the rows in the order given; a wrapped  *)
(* offset, 2^32 + offset bound as i64, is past every row of the table.    *)
Window(seq, offset, limit) ==
    IF offset < 0 THEN <<>>
    ELSE SubSeq(seq, offset + 1, Min(offset + limit, Len(seq)))

(* ORDER BY created_at DESC: created_at follows the order of insertion, so *)
(* the rows come out by descending id.                                      *)
OrderedByCreatedAt(ids) == Reverse(ids)

(* The rows of get_orders, each named by its id. *)
GetOrdersRows(rows, page, limit, status, order_type, prosumer_address) ==
    LET Keep(id) == OrderFilter(rows[id], status, order_type, prosumer_address)
        ids == SelectSeq([id \in 1..Len(rows) |-> id], Keep)
    IN Window(OrderedByCreatedAt(ids), PageOffset(page, limit), limit)

(* get_orders: the offset is computed, then one SELECT; nothing is        *)
(* written.                                                               *)
GetOrders(page, limit, status, order_type, prosumer_address) ==
    /\ \E checks \in OverflowChecks :
          IF PageUnderflows(page) /\ checks
          THEN returned' = [NoReturn EXCEPT !.call = "get_orders",
                                            !.outcome = "panic"]
          ELSE returned' = [NoReturn EXCEPT
                              !.call = "get_orders",
                              !.outcome = "rows",
                              !.offset = PageOffset(page, limit),
                              !.rows = GetOrdersRows(orders, page, limit,
                                                     status, order_type,
                                                     prosumer_address)]
    /\ UNCHANGED <<prosumers, orders, trades, proposed, settle, tx,
                   ntransfers, state, reply, uuids, now,
                 auth_store, served>>

(* get_trades: SELECT * FROM trades ORDER BY created_at DESC LIMIT $1     *)
(* OFFSET $2, each row named by its position in the table.                *)
GetTrades(page, limit) ==
    /\ \E checks \in OverflowChecks :
          IF PageUnderflows(page) /\ checks
          THEN returned' = [NoReturn EXCEPT !.call = "get_trades",
                                            !.outcome = "panic"]
          ELSE returned' = [NoReturn EXCEPT
                              !.call = "get_trades",
                              !.outcome = "rows",
                              !.offset = PageOffset(page, limit),
                              !.rows =
                                  Window(OrderedByCreatedAt(
                                             [i \in 1..Len(trades) |-> i]),
                                         PageOffset(page, limit), limit)]
    /\ UNCHANGED <<prosumers, orders, trades, proposed, settle, tx,
                   ntransfers, state, reply, uuids, now,
                 auth_store, served>>

(* SUM(column) over the rows given. *)
RECURSIVE SumSeq(_)
SumSeq(seq) ==
    IF seq = <<>> THEN 0
    ELSE seq[Len(seq)] + SumSeq(SubSeq(seq, 1, Len(seq) - 1))

(* A scan that counts the trades of every status. *)
StatsStatusesAll == TradeStatusInputs

(* FROM trades WHERE status = 'completed' *)
StatsStatuses == {"completed"}

(* get_market_stats: COALESCE(SUM(energy_amount), 0.0) and                  *)
(* COALESCE(SUM(total_price), 0.0) over the completed trades.               *)
GetMarketStats ==
    /\ LET InStatus(t) == t.status \in StatsStatuses
           rows == SelectSeq(trades, InStatus)
       IN returned' = [NoReturn EXCEPT
                         !.call = "get_market_stats",
                         !.total_energy_traded =
                             SumSeq([i \in 1..Len(rows) |->
                                       rows[i].energy_amount]),
                         !.total_volume =
                             SumSeq([i \in 1..Len(rows) |->
                                       rows[i].total_price])]
    /\ UNCHANGED <<prosumers, orders, trades, proposed, settle, tx,
                   ntransfers, state, reply, uuids, now,
                 auth_store, served>>

(* The clock advances. *)
MaxTime == 2

Tick ==
    /\ now < MaxTime
    /\ now' = now + 1
    /\ UNCHANGED <<prosumers, orders, trades, proposed, settle, tx, ntransfers,
                   state, reply, uuids, returned,
                 auth_store, served>>

-----------------------------------------------------------------------------
Init ==
    /\ prosumers = [a \in Addresses |-> NoRow]
    /\ orders = <<>>
    /\ trades = <<>>
    /\ proposed = <<>>
    /\ settle = [s \in Settlers |-> IdleSettle]
    /\ tx = [c \in Clients |-> IdleTx]
    /\ ntransfers = 0
    /\ state = NewLedgerState
    /\ reply = NoReply
    /\ uuids = 0
    /\ now = 0
    /\ returned = NoReturn
    /\ auth_store = NewAuthStore
    /\ served = NoRequest

(* The balance ledger: accounts and concurrent transfers. *)
NextLedger ==
    \/ \E a \in Addresses, g \in BalanceInputs, w \in BalanceInputs :
          CreateProsumer(a, g, w)
    \/ \E c \in Clients, f \in Addresses, t \in Addresses,
          m \in AmountInputs, k \in TokenInputs : TransferBegin(c, f, t, m, k)
    \/ \E c \in Clients : TransferSelect(c)
    \/ \E c \in Clients : TransferDebit(c)
    \/ \E c \in Clients : TransferCredit(c)
    \/ \E c \in Clients : TransferCommit(c)
    \/ \E c \in Clients : TransferDeadlock(c)

SpecLedger == Init /\ [][NextLedger]_vars

(* The same ledger when every caller passes a positive amount. *)
NextLedgerPositive ==
    \/ \E a \in Addresses, g \in BalanceInputs, w \in BalanceInputs :
          CreateProsumer(a, g, w)
    \/ \E c \in Clients, f \in Addresses, t \in Addresses,
          m \in PositiveAmounts, k \in TokenInputs : TransferBegin(c, f, t, m, k)
    \/ \E c \in Clients : TransferSelect(c)
    \/ \E c \in Clients : TransferDebit(c)
    \/ \E c \in Clients : TransferCredit(c)
    \/ \E c \in Clients : TransferCommit(c)
    \/ \E c \in Clients : TransferDeadlock(c)

SpecLedgerPositive == Init /\ [][NextLedgerPositive]_vars

(* The order store, the matching pass and the settlement of its candidates; *)
(* the buy orders are placed by one prosumer and the sell orders by another *)
Trader(order_type) == IF order_type = "buy" THEN "alice" ELSE "bob"

Next ==
    \/ \E t \in OrderTypes, e \in EnergyInputs, p \in PriceInputs :
          CreateOrder(Trader(t), t, e, p, "active", None)
    \/ \E id \in OrderIds, st \in OrderStatusInputs :
          UpdateOrder(id, Some(st), None, None)
    \/ \E id \in OrderIds : CancelOrder(id)
    \/ MatchOrders
    \/ \E s \in Settlers, i \in 1..Len(proposed), st \in TradeStatusInputs :
          ExecCreateTrade(s, i, st)
    \/ \E s \in Settlers : ExecUpdateBuy(s)
    \/ \E s \in Settlers : ExecUpdateSell(s)
    \/ \E s \in Settlers : ExecUpdateFails(s)

Spec == Init /\ [][Next]_vars

(* Cancellation against settlement: the market without update_order and    *)
(* without failing statements.                                             *)
NextCancel ==
    \/ \E t \in OrderTypes, e \in EnergyInputs, p \in PriceInputs :
          CreateOrder(Trader(t), t, e, p, "active", None)
    \/ \E id \in OrderIds : CancelOrder(id)
    \/ MatchOrders
    \/ \E s \in Settlers, i \in 1..Len(proposed), st \in TradeStatusInputs :
          ExecCreateTrade(s, i, st)
    \/ \E s \in Settlers : ExecUpdateBuy(s)
    \/ \E s \in Settlers : ExecUpdateSell(s)

SpecCancel == Init /\ [][NextCancel]_vars

(* Settlement against the ledger: accounts, orders, one pass, settlement. *)
NextSettle ==
    \/ \E a \in Addresses, w \in BalanceInputs : CreateProsumer(a, 0, w)
    \/ \E a \in Addresses, t \in OrderTypes, p \in PriceInputs :
          CreateOrder(a, t, 1, p, "active", None)
    \/ MatchOrders
    \/ \E s \in Settlers, i \in 1..Len(proposed), st \in TradeStatusInputs :
          ExecCreateTrade(s, i, st)
    \/ \E s \in Settlers : ExecUpdateBuy(s)
    \/ \E s \in Settlers : ExecUpdateSell(s)
    \/ \E s \in Settlers : ExecUpdateFails(s)

SpecSettle == Init /\ [][NextSettle]_vars

(* The in-memory handlers: prosumers, orders and their cancellation; a     *)
(* client names its own address in the body of its request.                *)
LegacyOrderTypes == OrderTypes \cup {"swap"}
LegacyEnergyInputs == {0, 1}

NextHandlers ==
    \/ \E r \in Roles, a \in Addresses, n \in ProsumerNames :
          HandlerCreateProsumer(r, a, n)
    \/ \E r \in Roles, a \in Addresses, m \in GenerationInputs :
          HandlerUpdateEnergyGeneration(r, a, m)
    \/ \E a \in Addresses, t \in LegacyOrderTypes, e \in LegacyEnergyInputs :
          HandlerCreateEnergyOrderLegacy(a, t, e, 1)
    \/ \E r \in Roles, id \in 1..uuids, a \in Addresses :
          HandlerCancelEnergyOrder(r, id, a)

SpecHandlers == Init /\ [][NextHandlers]_vars

(* The matching pass over orders whose status changes. *)
NextMatch ==
    \/ \E t \in OrderTypes, e \in EnergyInputs, p \in PriceInputs :
          CreateOrder(Trader(t), t, e, p, "active", None)
    \/ \E id \in OrderIds, st \in OrderStatusInputs :
          UpdateOrder(id, Some(st), None, None)
    \/ \E id \in OrderIds : CancelOrder(id)
    \/ MatchOrders

SpecMatch == Init /\ [][NextMatch]_vars

(* Matching and settling: every candidate is handed to execute_trade as     *)
(* match_orders returned it.                                                *)
NextFill ==
    \/ \E a \in Addresses, w \in BalanceInputs : CreateProsumer(a, 0, w)
    \/ \E t \in OrderTypes, e \in EnergyInputs, p \in PriceInputs :
          CreateOrder(Trader(t), t, e, p, "active", None)
    \/ MatchOrders
    \/ \E s \in Settlers, i \in 1..Len(proposed) :
          ExecCreateTrade(s, i, proposed[i].status)
    \/ \E s \in Settlers : ExecUpdateBuy(s)
    \/ \E s \in Settlers : ExecUpdateSell(s)

SpecFill == Init /\ [][NextFill]_vars

(* Registering accounts and updating their energy counters. *)
CounterInputs == 0..MaxEnergy

CounterOptions == {None} \cup {Some(v) : v \in CounterInputs}

NextProsumer ==
    \/ \E a \in Addresses, w \in BalanceInputs :
          \E g \in 0..1, c \in 0..1 :
             CreateProsumerRow(a, 0, w, g, c)
    \/ \E a \in Addresses, g \in CounterOptions, c \in CounterOptions :
          UpdateProsumer(a, g, c)

SpecProsumer == Init /\ [][NextProsumer]_vars

(* Listing the order book page by page. *)
NextList ==
    \/ \E t \in OrderTypes, st \in OrderStatusInputs :
          CreateOrder(Trader(t), t, 1, 1, st, None)
    \/ \E page \in PageInputs, limit \in LimitInputs :
          \E st \in Options(OrderStatusInputs), t \in Options(OrderTypes) :
             \E a \in Options(Addresses) : GetOrders(page, limit, st, t, a)

SpecList == Init /\ [][NextList]_vars

(* Listing orders and trades by any page that a u32 can hold. *)
NextPages ==
    \/ \E t \in OrderTypes :
          CreateOrder(Trader(t), t, 1, 1, "active", None)
    \/ MatchOrders
    \/ ExecuteTrade
    \/ \E page \in PageNumbers, limit \in LimitInputs :
          GetOrders(page, limit, None, None, None)
    \/ \E page \in PageNumbers, limit \in LimitInputs :
          GetTrades(page, limit)

SpecPages == Init /\ [][NextPages]_vars

(* Settling candidates with any status and reading the statistics. *)
NextStats ==
    \/ \E t \in OrderTypes, e \in EnergyInputs, p \in PriceInputs :
          CreateOrder(Trader(t), t, e, p, "active", None)
    \/ MatchOrders
    \/ \E s \in Settlers, i \in 1..Len(proposed), st \in TradeStatusInputs :
          ExecCreateTrade(s, i, st)
    \/ \E s \in Settlers : ExecUpdateBuy(s)
    \/ \E s \in Settlers : ExecUpdateSell(s)
    \/ GetMarketStats

SpecStats == Init /\ [][NextStats]_vars

(* Matching over an order book larger than the cap of one pass. *)
BookSize == 8

BookOrder(address, order_type, energy_amount, price_per_unit) ==
    [prosumer_address |-> address, order_type |-> order_type,
     energy_amount |-> energy_amount, price_per_unit |-> price_per_unit,
     total_price |-> energy_amount * price_per_unit,
     status |-> "active", expires_at |-> None]

BookRows ==
    {BookOrder("alice", "buy", 1, 2), BookOrder("bob", "sell", 3, 1),
     BookOrder("bob", "sell", 3, 3)}

(* The state after BookSize calls of create_order. *)
InitBook ==
    /\ orders \in [1..BookSize -> BookRows]
    /\ prosumers = [a \in Addresses |-> NoRow]
    /\ trades = <<>>
    /\ proposed = <<>>
    /\ settle = [s \in Settlers |-> IdleSettle]
    /\ tx = [c \in Clients |-> IdleTx]
    /\ ntransfers = 0
    /\ state = NewLedgerState
    /\ reply = NoReply
    /\ uuids = 0
    /\ now = 0
    /\ returned = NoReturn
    /\ auth_store = NewAuthStore
    /\ served = NoRequest

NextBook ==
    \/ MatchOrdersBatch
    \/ ExecuteTrade

SpecBook == InitBook /\ [][NextBook]_vars

(* Handlers that record an audit transaction with what they store. *)
NextAudit ==
    \/ \E a \in Addresses, n \in ProsumerNames, out \in AuditOutcomes :
          HandlerCreateProsumerWithBlockchain(a, n, out)
    \/ \E a \in Addresses, t \in LegacyOrderTypes, out \in AuditOutcomes :
          HandlerCreateEnergyOrderWithBlockchain(a, t, 1, 1, out)
    \/ \E a \in Addresses, m \in GenerationInputs :
          HandlerUpdateEnergyGeneration("admin", a, m)

SpecAudit == Init /\ [][NextAudit]_vars

(* Requests to the authentication routes. *)
Usernames == {"admin", "ann", "bob"}
Emails == {"admin@energy-trading.com", "ann@example.com", "bob@example.com"}
RegisterRoles == {"admin", "trader"}
ExpiresInDays == {None, Some(0), Some(1)}

NextAuth ==
    \/ \E r \in RegisterRoles :
          Register([bearer |-> None, api_key |-> None], "ann",
                   "ann@example.com", r)
    \/ \E c \in Credentials(auth_store) : RefreshToken(c)
    \/ \E c \in Credentials(auth_store) : GetCurrentUser(c)
    \/ \E c \in Credentials(auth_store), d \in ExpiresInDays : CreateApiKey(c, d)
    \/ \E c \in Credentials(auth_store), k \in 0..Len(auth_store.api_keys) :
          RevokeApiKey(c, k)
    \/ Tick

SpecAuth == Init /\ [][NextAuth]_vars

(* Creating, using and revoking API keys; a request carries one header. *)
SingleCredentials(store) ==
    {c \in Credentials(store) : c.bearer = None \/ c.api_key = None}

NextKeys ==
    \/ \E r \in RegisterRoles :
          Register([bearer |-> None, api_key |-> None], "ann",
                   "ann@example.com", r)
    \/ \E c \in SingleCredentials(auth_store) : GetCurrentUser(c)
    \/ \E c \in SingleCredentials(auth_store), d \in {None, Some(1)} :
          CreateApiKey(c, d)
    \/ \E c \in SingleCredentials(auth_store) :
          \E k \in 0..Len(auth_store.api_keys) : RevokeApiKey(c, k)
    \/ Tick

SpecKeys == Init /\ [][NextKeys]_vars

(* Registrations, by callers with and without a token. *)
NextUsers ==
    \/ \E c \in Credentials(auth_store) :
          \E u \in Usernames, e \in Emails, r \in RegisterRoles :
             Register(c, u, e, r)
    \/ \E c \in Credentials(auth_store) : GetCurrentUser(c)

SpecUsers == Init /\ [][NextUsers]_vars

(* Token accounts and grid-token transfers of the in-memory handlers;    *)
(* prosumers are created while the lock can be taken.                     *)
NextTokens ==
    \/ \E a \in Addresses : HandlerCreateTokenAccount(a)
    \/ \E a \in Addresses : HandlerGetTokenBalance(a)
    \/ \E from \in Addresses, to \in Addresses :
          \E m \in TransferAmounts, t \in TransferTokenTypes :
             HandlerTransferTokens(from, to, m, t)
    \/ \E r \in Roles, a \in Addresses, n \in ProsumerNames :
          ~state.poisoned /\ HandlerCreateProsumer(r, a, n)

SpecTokens == Init /\ [][NextTokens]_vars

(* Placing orders with the values and the status that a caller passes. *)
PlaceEnergyInputs == {-1, 0, 1}
PlacePriceInputs  == {0, 1}
PlaceStatusInputs == {"active", "pending", "completed"}

NextPlace ==
    \/ \E t \in OrderTypes, e \in PlaceEnergyInputs, p \in PlacePriceInputs,
          st \in PlaceStatusInputs :
          CreateOrder(Trader(t), t, e, p, st, None)
    \/ \E id \in OrderIds : CancelOrder(id)
    \/ MatchOrders

SpecPlace == Init /\ [][NextPlace]_vars

(* Orders with an expiry time, the clock and the matching pass. *)
ExpiryInputs == 1..MaxTime

NextExpiry ==
    \/ \E t \in OrderTypes, p \in PriceInputs, x \in Options(ExpiryInputs) :
          CreateOrder(Trader(t), t, 1, p, "active", x)
    \/ Tick
    \/ MatchOrders
    \/ \E id \in OrderIds : CancelOrder(id)

SpecExpiry == Init /\ [][NextExpiry]_vars

-----------------------------------------------------------------------------
(* Properties of the balance ledger *)

(* The step by which the transfer_tokens call of client c returns Ok. *)
TransferSucceeds(c) == tx[c].pc = "credited" /\ tx'[c].result = "Ok"

(* The balance of an address, 0 when it has no row. *)
BalanceOf(rows, a, k) == IF rows[a].present THEN Balance(rows[a], k) ELSE 0

PairSum(rows, from, to, k) ==
    IF from = to THEN BalanceOf(rows, from, k)
    ELSE BalanceOf(rows, from, k) + BalanceOf(rows, to, k)

(* C1: every successful transfer leaves the sum of the balances of its     *)
(* source and destination unchanged, for each token kind.                  *)
C1_TransferZeroSum ==
    [][\A c \in Clients : TransferSucceeds(c) =>
          \A k \in TokenTypes :
              PairSum(prosumers', tx[c].from, tx[c].to, k)
                  = PairSum(prosumers, tx[c].from, tx[c].to, k)]_vars

(* C2: no balance is ever negative, also when transfers of positive        *)
(* amounts from one source overlap.                                        *)
C2_NoNegativeBalance ==
    \A a \in Addresses :
        prosumers[a].grid_tokens >= 0 /\ prosumers[a].watt_tokens >= 0

(* C10: a transfer whose amount is <= 0, between two existing accounts and *)
(* of a valid token kind, returns InvalidAmount and changes no balance.    *)
C10_NonPositiveAmountRejected ==
    [][\A c \in Clients :
          ( /\ tx[c].pc # "idle" /\ tx'[c].pc = "idle"
            /\ tx[c].amount <= 0 /\ tx[c].from # tx[c].to
            /\ tx[c].token_type \in TokenTypes
            /\ prosumers[tx[c].from].present /\ prosumers[tx[c].to].present )
          => (tx'[c].result = "InvalidAmount" /\ prosumers' = prosumers)]_vars

(* The step by which the transfer_tokens call of client c returns. *)
TransferReturns(c) == tx[c].pc # "idle" /\ tx'[c].pc = "idle"

(* C11: a transfer whose source or destination account does not exist      *)
(* fails and changes no balance: a transfer of a valid token kind to an     *)
(* address without a row does not return Ok and debits nothing.             *)
C11_MissingAccountFails ==
    [][\A c \in Clients :
          ( /\ TransferReturns(c)
            /\ tx[c].token_type \in TokenTypes
            /\ ~prosumers[tx[c].from].present \/ ~prosumers[tx[c].to].present )
          => (tx'[c].result # "Ok" /\ prosumers' = prosumers)]_vars

(* The step in which the transfer of client c reads its sender row, when    *)
(* the row exists and its balance of the requested kind is below the amount *)
ReadsInsufficient(c) ==
    /\ tx[c].pc = "begun" /\ tx'[c] # tx[c]
    /\ prosumers[tx[c].from].present
    /\ tx[c].token_type \in TokenTypes
    /\ Balance(prosumers[tx[c].from], tx[c].token_type) < tx[c].amount

(* C12: a transfer that reads a source balance of the requested token kind  *)
(* smaller than its amount returns the insufficient-funds error at once,    *)
(* and no balance changes; no call returns that error with any other effect *)
C12_InsufficientFundsRejected ==
    [][\A c \in Clients :
          /\ ReadsInsufficient(c)
                => /\ tx'[c].pc = "idle"
                   /\ tx'[c].result = "InsufficientTokens"
                   /\ prosumers' = prosumers
          /\ (TransferReturns(c) /\ tx'[c].result = "InsufficientTokens")
                => prosumers' = prosumers]_vars

C12_Witness ==
    \E c \in Clients :
        /\ tx[c].pc = "idle" /\ tx[c].result = "InsufficientTokens"
        /\ \E a \in Addresses : prosumers[a].present /\ prosumers[a].grid_tokens > 0

-----------------------------------------------------------------------------
(* Properties of the order store, matching and settlement *)

TerminalStatuses == {"completed", "cancelled", "expired"}

References(t, id) == t.buy_order_id = id \/ t.sell_order_id = id

(* Sum of the traded amounts of the stored trades i..Len(trades) that      *)
(* reference order id.                                                     *)
RECURSIVE TradedAmount(_, _)
TradedAmount(id, i) ==
    IF i > Len(trades) THEN 0
    ELSE (IF References(trades[i], id) THEN trades[i].energy_amount ELSE 0)
         + TradedAmount(id, i + 1)

(* C3: a settlement that failed at one of its steps leaves no trade row.   *)
C3_FailedSettlementLeavesNothing ==
    \A s \in Settlers :
        (settle[s].pc = "idle" /\ settle[s].result = "SqlxError")
            => settle[s].trade \notin 1..Len(trades)

(* C4: the trades that reference an order never add up to more than the   *)
(* order's energy amount.                                                  *)
C4_NoOvercommit ==
    \A id \in OrderIds : TradedAmount(id, 1) <= orders[id].energy_amount

(* C5: an order in a terminal status keeps that status.                    *)
C5_TerminalStatusIsFinal ==
    [][\A id \in OrderIds :
          orders[id].status \in TerminalStatuses
              => orders'[id].status = orders[id].status]_vars

(* A step of the execute_trade call of settler s, and the trade it settles *)
SettleStep(s) == settle'[s] # settle[s]

SettledTrade(s) ==
    IF settle[s].pc = "idle" THEN trades'[Len(trades')]
    ELSE trades[settle[s].trade]

OrderCancelled(t) ==
    \/ orders[t.buy_order_id].status = "cancelled"
    \/ orders[t.sell_order_id].status = "cancelled"

(* C6: settling a candidate one of whose orders was cancelled after the    *)
(* pass stores the trade as failed, changes no balance and leaves the      *)
(* cancelled order cancelled.                                              *)
C6_CancelledOrderFailsSettlement ==
    [][\A s \in Settlers :
          (SettleStep(s) /\ OrderCancelled(SettledTrade(s)))
          => /\ settle[s].pc = "idle" => SettledTrade(s).status = "failed"
             /\ prosumers' = prosumers
             /\ \A id \in OrderIds :
                   orders[id].status = "cancelled"
                       => orders'[id].status = "cancelled"]_vars

ExecutedOn(id) ==
    \E i \in 1..Len(trades) :
        References(trades[i], id) /\ trades[i].status = "completed"

(* C7: of a cancellation and a settlement on one order only one takes      *)
(* effect: a cancellation never takes effect on an order for which an      *)
(* executed (completed) trade is stored, during or after its settlement.   *)
C7_CancelLosesAgainstSettlement ==
    [][\A id \in OrderIds :
          (orders[id].status # "cancelled" /\ orders'[id].status = "cancelled")
              => ~ExecutedOn(id)]_vars

(* The ledger movement of trade t happens in the step: the buyer is        *)
(* debited and the seller credited by the total price, in one token kind.  *)
LedgerMoved(t) ==
    IF t.buyer_address = t.seller_address THEN prosumers' = prosumers
    ELSE \E k \in TokenTypes :
           /\ BalanceOf(prosumers', t.buyer_address, k)
                = BalanceOf(prosumers, t.buyer_address, k) - t.total_price
           /\ BalanceOf(prosumers', t.seller_address, k)
                = BalanceOf(prosumers, t.seller_address, k) + t.total_price

BuyerCanPay(t) ==
    /\ prosumers[t.buyer_address].present
    /\ prosumers[t.seller_address].present
    /\ \E k \in TokenTypes :
          Balance(prosumers[t.buyer_address], k) >= t.total_price

BuyerCannotPay(t) ==
    /\ prosumers[t.buyer_address].present
    /\ prosumers[t.seller_address].present
    /\ \A k \in TokenTypes :
          Balance(prosumers[t.buyer_address], k) < t.total_price

(* C8: a trade is stored as completed only together with its ledger        *)
(* movement from the buyer to the seller.                                  *)
C8_CompletedTradeMovesTokens ==
    [][\A s \in Settlers :
          ( /\ SettleStep(s) /\ settle[s].pc = "idle"
            /\ SettledTrade(s).status = "completed"
            /\ BuyerCanPay(SettledTrade(s)) )
          => LedgerMoved(SettledTrade(s))]_vars

(* C9: settling a trade whose buyer cannot pay its total value changes no  *)
(* order and no balance and stores no completed trade.                     *)
C9_InsufficientBuyerAbortsSettlement ==
    [][\A s \in Settlers :
          (SettleStep(s) /\ BuyerCannotPay(SettledTrade(s)))
          => /\ orders' = orders
             /\ prosumers' = prosumers
             /\ settle[s].pc = "idle" => SettledTrade(s).status # "completed"]_vars

(* The candidates that the step adds to the proposed trades: the result of *)
(* the matching pass that the step runs.                                   *)
NewCandidates ==
    {proposed'[i] : i \in (Len(proposed) + 1)..Len(proposed')}

(* No active buy order is priced at or above an active sell order. *)
NoCrossing ==
    \A bi \in OrderIds, si \in OrderIds :
        ( /\ orders[bi].order_type = "buy" /\ orders[bi].status = "active"
          /\ orders[si].order_type = "sell" /\ orders[si].status = "active" )
        => orders[bi].price_per_unit < orders[si].price_per_unit

(* C15: an order is stored only with a positive energy amount and a        *)
(* positive price, and every order starts with the status active.          *)
C15_OnlyValidOrdersStored ==
    [][\A id \in (Len(orders) + 1)..Len(orders') :
          /\ orders'[id].energy_amount > 0
          /\ orders'[id].price_per_unit > 0
          /\ orders'[id].status = "active"]_vars

(* C16: cancelling an order that is not active leaves its status as it is: *)
(* an order that is completed never becomes cancelled.                     *)
C16_CancelNeedsActive ==
    [][\A id \in OrderIds :
          orders[id].status \notin {"active", "cancelled"}
              => orders'[id].status # "cancelled"]_vars

(* C19: every candidate of a matching pass pairs a buy order with a sell   *)
(* order, both of status active, the buy price not below the sell price;   *)
(* a pass over orders none of whose active buy prices reaches an active    *)
(* sell price proposes nothing.                                            *)
C19_CandidatesCross ==
    [][ /\ \A t \in NewCandidates :
              LET b == orders[t.buy_order_id]
                  s == orders[t.sell_order_id]
              IN /\ b.order_type = "buy" /\ s.order_type = "sell"
                 /\ b.status = "active" /\ s.status = "active"
                 /\ b.price_per_unit >= s.price_per_unit
        /\ NoCrossing => NewCandidates = {} ]_vars

(* A pass has proposed a buy order priced above the sell order, next to    *)
(* an order that is no longer active.                                      *)
C19_Witness ==
    /\ \E i \in 1..Len(proposed) :
          orders[proposed[i].buy_order_id].price_per_unit
              > orders[proposed[i].sell_order_id].price_per_unit
    /\ \E id \in OrderIds : orders[id].status # "active"

(* The expiry time of order o lies in the past. *)
Expired(o) == o.expires_at # None /\ o.expires_at[1] < now

(* C20: no candidate of a matching pass has an order whose expiry time is  *)
(* in the past, whatever the stored status of that order.                  *)
C20_ExpiredNeverMatched ==
    [][\A t \in NewCandidates :
          /\ ~Expired(orders[t.buy_order_id])
          /\ ~Expired(orders[t.sell_order_id])]_vars

(* C21: the price of every proposed trade is the price of its sell order,   *)
(* and its total price is its energy amount times that price.               *)
C21_ExecutionAtSellPrice ==
    [][\A t \in NewCandidates :
          /\ t.price_per_unit = orders[t.sell_order_id].price_per_unit
          /\ t.total_price = t.energy_amount * t.price_per_unit]_vars

(* A pass has proposed two units at the sell price 1 against a buy order    *)
(* priced at 2.                                                             *)
C21_Witness ==
    \E i \in 1..Len(proposed) :
        /\ orders[proposed[i].buy_order_id].price_per_unit = 2
        /\ orders[proposed[i].sell_order_id].price_per_unit = 1
        /\ proposed[i].energy_amount = 2
        /\ proposed[i].total_price = 2

(* Sum of the energy amounts of the stored trades i..Len(trades) that       *)
(* reference order id and are completed: what has been filled of the order. *)
RECURSIVE FilledAmount(_, _)
FilledAmount(id, i) ==
    IF i > Len(trades) THEN 0
    ELSE (IF References(trades[i], id) /\ trades[i].status = "completed"
          THEN trades[i].energy_amount ELSE 0)
         + FilledAmount(id, i + 1)

RemainingAmount(id) == orders[id].energy_amount - FilledAmount(id, 1)

(* C22: the energy amount of every proposed trade is the smaller of the     *)
(* remaining amounts of its two orders when the pass runs, the remaining    *)
(* amount of an order being its amount less its earlier fills.              *)
C22_AmountIsMinOfRemaining ==
    [][\A t \in NewCandidates :
          t.energy_amount = Min(RemainingAmount(t.buy_order_id),
                                RemainingAmount(t.sell_order_id))]_vars

(* The step by which the execute_trade call of settler s returns Ok. *)
SettlementReturnsOk(s) == settle[s].pc = "buy_updated" /\ settle'[s].result = "Ok"

(* C23: when a settled trade is smaller than one of its orders, that order  *)
(* is still active after the settlement, and the order that the trade       *)
(* fills is completed.                                                      *)
C23_PartialFillKeepsLargerOrder ==
    [][\A s \in Settlers :
          SettlementReturnsOk(s)
          => LET t == trades[settle[s].trade]
             IN \A id \in {t.buy_order_id, t.sell_order_id} :
                   orders'[id].status =
                       IF t.energy_amount < orders[id].energy_amount
                       THEN "active" ELSE "completed"]_vars

(* C24: the settlement of a candidate of two orders of equal amount leaves  *)
(* exactly one trade for the pair, completed, at the sell price and the    *)
(* full amount, and both orders completed.                                  *)
C24_FullFillCompletesOrdersAndTrade ==
    [][\A s \in Settlers :
          ( /\ SettlementReturnsOk(s)
            /\ orders[trades[settle[s].trade].buy_order_id].energy_amount
                 = orders[trades[settle[s].trade].sell_order_id].energy_amount )
          => LET t == trades[settle[s].trade]
             IN /\ t.status = "completed"
                /\ t.price_per_unit = orders[t.sell_order_id].price_per_unit
                /\ t.energy_amount = orders[t.buy_order_id].energy_amount
                /\ orders'[t.buy_order_id].status = "completed"
                /\ orders'[t.sell_order_id].status = "completed"
                /\ Cardinality({i \in 1..Len(trades) :
                                  /\ trades[i].buy_order_id = t.buy_order_id
                                  /\ trades[i].sell_order_id = t.sell_order_id})
                     = 1]_vars

(* The pairs of stored orders that satisfy the join condition. *)
EligiblePairs ==
    {pr \in OrderIds \X OrderIds : JoinCondition(orders[pr[1]], orders[pr[2]])}

(* The number of new candidates for the pair pr. *)
CandidatesFor(pr) ==
    Cardinality({i \in (Len(proposed) + 1)..Len(proposed') :
                   /\ proposed'[i].buy_order_id = pr[1]
                   /\ proposed'[i].sell_order_id = pr[2]})

(* C25: a matching pass changes no balance, no order and no stored trade;   *)
(* within the cap it returns exactly one trade, of status pending, for each *)
(* pair of orders that match and none for any other pair.                   *)
C25_MatchingIsReadOnly ==
    [][NewCandidates # {}
       => /\ prosumers' = prosumers /\ orders' = orders /\ trades' = trades
          /\ \A t \in NewCandidates : t.status = "pending"
          /\ \A pr \in OrderIds \X OrderIds :
                CandidatesFor(pr) =
                    IF pr \in EligiblePairs /\ Cardinality(EligiblePairs) <= MatchLimit
                    THEN 1 ELSE 0]_vars

(* A pass has run over funded accounts and a stored trade: a candidate is   *)
(* proposed while a trade is stored and an account holds tokens.            *)
C25_Witness ==
    /\ Len(proposed) > 0 /\ Len(trades) > 0
    /\ proposed[Len(proposed)].status = "pending"
    /\ \E a \in Addresses : prosumers[a].present /\ prosumers[a].watt_tokens > 0
    /\ \A id \in OrderIds : orders[id].status = "active"

(* C29: the energy-generated and the energy-consumed counter of an account *)
(* never decrease.                                                          *)
C29_EnergyCountersNeverDecrease ==
    [][\A a \in Addresses :
          prosumers[a].present
          => /\ prosumers'[a].energy_generated >= prosumers[a].energy_generated
             /\ prosumers'[a].energy_consumed >= prosumers[a].energy_consumed]_vars

(* A step of a read-only query: nothing but the returned value changes. *)
ReadStep ==
    UNCHANGED <<prosumers, orders, trades, proposed, settle, tx, ntransfers,
                state, reply, uuids, now,
                 auth_store, served>>

C30_ListedOldestFirst ==
    returned.call = "get_orders"
    => \A i \in 1..Len(returned.rows) : \A j \in 1..Len(returned.rows) :
          i < j => returned.rows[i] < returned.rows[j]

(* C35: get_orders and get_trades compute the offset (page - 1) * limit   *)
(* without leaving u32 for every page and limit: no call panics and no    *)
(* call uses a wrapped offset, page 0 included.                           *)
C35_OffsetWithinRange ==
    returned.call \in {"get_orders", "get_trades"}
    => returned.outcome = "rows" /\ returned.offset >= 0

(* The pair of order ids of a trade, and the order of the query on pairs:  *)
(* by the creation of the buy order, then by the creation of the sell order.*)
PairOf(t) == <<t.buy_order_id, t.sell_order_id>>

Precedes(p, q) == p[1] < q[1] \/ (p[1] = q[1] /\ p[2] < q[2])

(* C26: the candidates of a pass are listed by ascending creation of the   *)
(* buy order, then of the sell order, and when the cap cuts the list every *)
(* proposed pair precedes every matching pair that is not proposed.        *)
C26_EarliestPairsFirst ==
    [][(proposed = <<>> /\ proposed' # <<>>)
       => /\ \A i \in 1..Len(proposed') : \A j \in 1..Len(proposed') :
                i < j => Precedes(PairOf(proposed'[i]), PairOf(proposed'[j]))
          /\ \A i \in 1..Len(proposed') :
                \A pr \in EligiblePairs \ {PairOf(proposed'[k]) : k \in 1..Len(proposed')} :
                   Precedes(PairOf(proposed'[i]), pr)]_vars

(* A first pass over a book with more matching pairs than the cap. *)
C26_Witness ==
    /\ Len(proposed) = MatchLimit
    /\ trades = <<>>
    /\ Cardinality(EligiblePairs) > MatchLimit

(* The amount of order id in the stored trades. *)
RECURSIVE TradedIn(_, _)
TradedIn(ts, id) ==
    IF ts = <<>> THEN 0
    ELSE TradedIn(Tail(ts), id)
         + (IF id \in {Head(ts).buy_order_id, Head(ts).sell_order_id}
            THEN Head(ts).energy_amount ELSE 0)

(* C27: an order that no candidate of the earlier passes named is proposed *)
(* by a later pass, run once those candidates are settled, when an order   *)
(* that crosses it still has an amount left to trade.                      *)
C27_UnmatchedProposedLater ==
    (proposed = <<>> /\ trades # <<>>)
    => \A x \in OrderIds : \A y \in OrderIds :
          ( /\ orders[x].status = "active" /\ TradedIn(trades, x) = 0
            /\ orders[y].status # "cancelled"
            /\ TradedIn(trades, y) < orders[y].energy_amount
            /\ \/ JoinConditionAnyStatus(orders[x], orders[y])
               \/ JoinConditionAnyStatus(orders[y], orders[x]) )
          => \/ Len(MatchResult(orders)) = MatchLimit
             \/ \E i \in 1..Len(MatchResult(orders)) :
                   x \in {MatchResult(orders)[i].buy_order_id,
                          MatchResult(orders)[i].sell_order_id}

(* C31: a failure of the audit transaction does not prevent the operation  *)
(* it accompanies: the prosumer of the request is stored, and the order of *)
(* the request is in the market, when the audit transaction fails.         *)
C31_AuditFailureKeepsOperation ==
    [][( /\ reply'.result = "blockchain_failed"
         /\ (reply' # reply \/ uuids' # uuids) )
       => /\ reply'.handler = "create_prosumer_with_blockchain"
               => state'.prosumers[reply'.address].present
          /\ reply'.handler = "create_energy_order_with_blockchain"
               => reply'.order_id \in MarketIds(state')]_vars

-----------------------------------------------------------------------------
(* Properties of the authentication layer *)

(* A step of SpecAuth that serves a request: every step but the clock's. *)
RequestStep == now' = now

(* An API key that is stored, active and not expired, of a stored user. *)
UsableKey(store, key, time) ==
    /\ key \in 1..Len(store.api_keys)
    /\ store.api_keys[key].is_active
    /\ store.api_keys[key].expires_at = None
         \/ store.api_keys[key].expires_at[1] > time
    /\ store.api_keys[key].user_id \in 1..Len(store.users)

(* A request that carries a token of a stored user or a usable API key. *)
CarriesValidCredential(store, credential, time) ==
    \/ /\ credential.bearer # None
       /\ credential.bearer[1] \in 1..Len(store.users)
    \/ /\ credential.api_key # None
       /\ UsableKey(store, credential.api_key[1], time)

(* C32: the middleware forwards a request to /api/auth/refresh only when   *)
(* it carries a valid JWT or API key.                                      *)
C32_RefreshRequiresAuthentication ==
    [][( /\ RequestStep
         /\ served'.path = "/api/auth/refresh"
         /\ served'.outcome = "forwarded" )
       => CarriesValidCredential(auth_store, served'.credential, now)]_vars

(* C33: a GET to a protected endpoint that carries a usable API key, and   *)
(* no Bearer token, is forwarded by the middleware.                        *)
C33_ApiKeyReadsProtectedEndpoint ==
    [][( /\ RequestStep
         /\ served'.method = "GET" /\ ~IsPublicEndpoint(served'.path)
         /\ served'.credential.bearer = None
         /\ served'.credential.api_key # None
         /\ UsableKey(auth_store, served'.credential.api_key[1], now) )
       => served'.outcome = "forwarded"]_vars

(* C36: a revoked key stays revoked and gives no request a context; a key  *)
(* is revoked only by a request of its owner or of an admin.               *)
C36_RevokedKeyNeverAuthenticates ==
    [][\A k \in 1..Len(auth_store.api_keys) :
          /\ ~auth_store.api_keys[k].is_active
               => /\ ~auth_store'.api_keys[k].is_active
                  /\ ( /\ RequestStep
                       /\ served'.credential = [bearer |-> None,
                                                api_key |-> Some(k)] )
                     => served'.extracted = NoContext
          /\ (auth_store.api_keys[k].is_active /\ ~auth_store'.api_keys[k].is_active)
               => \/ served'.context.user_id = auth_store.api_keys[k].user_id
                  \/ served'.context.role = "admin"]_vars

(* A revoked key was presented on a protected endpoint and turned away. *)
C36_Witness ==
    /\ served.credential.api_key # None /\ served.credential.bearer = None
    /\ served.credential.api_key[1] \in 1..Len(auth_store.api_keys)
    /\ ~auth_store.api_keys[served.credential.api_key[1]].is_active
    /\ auth_store.api_keys[served.credential.api_key[1]].expires_at = None
    /\ served.path = "/api/auth/me"
    /\ served.outcome = "unauthorized"

(* C37: no two stored users share a username or an e-mail address, and a   *)
(* create_user with a username or an e-mail address that is taken fails    *)
(* with UserAlreadyExists and stores no user.                              *)
C37_UsersUnique ==
    [][/\ \A i \in 1..Len(auth_store'.users) : \A j \in 1..Len(auth_store'.users) :
             i # j => /\ auth_store'.users[i].username # auth_store'.users[j].username
                      /\ auth_store'.users[i].email # auth_store'.users[j].email
       /\ Len(auth_store'.users) > Len(auth_store.users)
             => /\ served'.result = "Ok"
                /\ auth_store'.users = Append(auth_store.users,
                                              auth_store'.users[Len(auth_store'.users)])
       /\ ( /\ RequestStep /\ served'.path = "/api/auth/register"
            /\ served'.result = "UserAlreadyExists" )
             => auth_store'.users = auth_store.users]_vars

(* A registration was refused while several users are stored. *)
C37_Witness ==
    /\ served.path = "/api/auth/register"
    /\ served.result = "UserAlreadyExists"
    /\ Len(auth_store.users) >= 2

(* C34: no handler panics while it holds the lock on the LedgerState: the  *)
(* mutex is never poisoned and no request is answered by a panic.          *)
C34_LockNeverPoisoned ==
    ~state.poisoned /\ reply.result # "panic"

-----------------------------------------------------------------------------
(* Properties of the in-memory handlers *)

(* The step is a call of handler h. *)
Called(h) == reply'.handler = h /\ (reply' # reply \/ state' # state)

(* C14: creating an account for an address that already has one fails and  *)
(* leaves the account as it was; an account created for a new address has  *)
(* both balances zero.                                                     *)
C14_CreateExistingAccountFails ==
    [][\A a \in Addresses :
          ( /\ Called("create_prosumer") /\ reply'.address = a
            /\ reply'.result # "forbidden" )
          => IF state.prosumers[a].present
             THEN /\ reply'.result = "error"
                  /\ state'.prosumers[a] = state.prosumers[a]
             ELSE /\ state'.prosumers[a].grid_tokens = 0
                  /\ state'.prosumers[a].watt_tokens = 0]_vars

(* The trader address of the stored in-memory order id. *)
OwnerOf(st, id) ==
    (CHOOSE i \in 1..Len(MarketOrders(st)) : MarketOrders(st)[i].id = id)

(* C17: a cancellation of a stored order succeeds only for the owner of    *)
(* the order or an administrator, leaves the order as it is otherwise, and *)
(* succeeds for an administrator who is not the owner.                     *)
C17_CancelByOwnerOrAdmin ==
    [][\A id \in MarketIds(state) :
          (Called("cancel_energy_order") /\ reply'.order_id = id)
          => LET owner == MarketOrders(state)[OwnerOf(state, id)].trader_address
             IN /\ reply'.result = "success"
                    => (reply'.address = owner \/ reply'.role = "admin")
                /\ reply'.result # "success" => state' = state
                /\ reply'.role = "admin" => reply'.result = "success"]_vars

(* C18: orders are never deleted: every stored order id stays stored.      *)
C18_OrdersNeverDeleted ==
    [][MarketIds(state) \subseteq MarketIds(state')]_vars

====
